---- MODULE Spec2Model ----
(***************************************************************************)
(* Model of code/python/model_psv_sdg_interface.py (validate_inputs and    *)
(* output_time_axes) and of code/digitspan/full_download.py (the subject   *)
(* list and the download loop of main).                                    *)
(*                                                                         *)
(* Arrays are float64 numpy arrays: a shape and the flat row-major data.   *)
(* A float is a record [cls, v]: cls "fin" with the value v, or "nan" or   *)
(* "inf".  The scalars Fs and wind are floats counted in halves (h = 2     *)
(* stands for 1.0), NaN, Inf, or a non-scalar object.                      *)
(***************************************************************************)
EXTENDS Integers, Sequences, FiniteSets, TLC

\* ------------------------------------------------------------------ bounds
MaxT == 3        \* longest time axis tried
MaxM == 2        \* longest IBI / t_IBI series tried
MaxHalf == 3     \* Fs and wind range over -1/2 .. MaxHalf/2
MaxFiles == 2    \* most rest files one subject has

\* ------------------------------------------------------------------ floats
Fin(n) == [cls |-> "fin", v |-> n]
NaN == [cls |-> "nan", v |-> 0]
Inf == [cls |-> "inf", v |-> 0]

isfinite(x) == x.cls = "fin"

\* ------------------------------------------------------------------ arrays
NdArray(shape, data) == [nd |-> TRUE, shape |-> shape, data |-> data]
\* a Python list holding the same numbers: not a numpy.ndarray
PyList(data) == [nd |-> FALSE, shape |-> <<Len(data)>>, data |-> data]

ndim(a) == Len(a.shape)
size(a) == Len(a.data)

RECURSIVE Prod(_)
Prod(s) == IF s = <<>> THEN 1 ELSE s[1] * Prod(Tail(s))

\* elements of one index along axis 0
RowSize(a) == Prod(Tail(a.shape))

Min(a, b) == IF a < b THEN a ELSE b
Max(a, b) == IF a > b THEN a ELSE b

\* Python's slice bounds: a negative bound counts from the end, then both are
\* clamped into 0..n
SliceIndex(i, n) == IF i < 0 THEN Max(i + n, 0) ELSE Min(i, n)

\* a[start:stop] along axis 0 of an array of at least one dimension
Slice(a, start, stop) ==
    LET n  == a.shape[1]
        lo == SliceIndex(start, n)
        hi == SliceIndex(stop, n)
        k  == IF hi > lo THEN hi - lo ELSE 0
        r  == RowSize(a)
    IN  [nd    |-> a.nd,
         shape |-> <<k>> \o Tail(a.shape),
         data  |-> SubSeq(a.data, lo * r + 1, (lo + k) * r)]

\* ------------------------------------------------------------------ scalars
Num(h) == [kind |-> "num", h |-> h]
SNaN == [kind |-> "nan", h |-> 0]
SInf == [kind |-> "inf", h |-> 0]
\* a Python list in place of the float: np.isscalar is False, list * float raises
NonScalar == [kind |-> "seq", h |-> 0]

isscalar(s) == s.kind # "seq"

\* s <= 0 for a float s: false for NaN and for +Inf
LeqZero(s) == s.kind = "num" /\ s.h <= 0

\* wind * Fs for two floats, in quarters (q = 4 stands for 1.0)
Product(a, b) ==
    IF a.kind = "nan" \/ b.kind = "nan" THEN [kind |-> "nan", q |-> 0]
    ELSE IF a.kind = "inf" \/ b.kind = "inf"
         THEN IF (a.kind = "num" /\ a.h = 0) \/ (b.kind = "num" /\ b.h = 0)
              THEN [kind |-> "nan", q |-> 0]
              ELSE [kind |-> "inf", q |-> 0]
         ELSE [kind |-> "num", q |-> a.h * b.h]

\* Python 3 round() of q/4: to the nearest integer, ties to the even one
Round(q) ==
    LET f == q \div 4
        r == q % 4
    IN  IF r < 2 THEN f
        ELSE IF r > 2 THEN f + 1
        ELSE IF f % 2 = 0 THEN f ELSE f + 1

\* int(round(wind * Fs)): the exception round() raises, or the value
WindowSamples(mi) ==
    IF ~isscalar(mi.wind) \/ ~isscalar(mi.Fs)
    THEN [exc |-> "TypeError", Ws |-> 0]
    ELSE LET p == Product(mi.wind, mi.Fs)
         IN  IF p.kind = "nan" THEN [exc |-> "ValueError", Ws |-> 0]
             ELSE IF p.kind = "inf" THEN [exc |-> "OverflowError", Ws |-> 0]
             ELSE [exc |-> "none", Ws |-> Round(p.q)]

\* ------------------------------------------------------------------ validate_inputs
ArrayNames == <<"EEG_comp", "IBI", "t_IBI", "CSI", "CVI", "time">>

Raise(msg) == [exc |-> "InputValidationError", msg |-> msg]
Returned == [exc |-> "none", msg |-> ""]

\* faulty variant: the loop forgets the finiteness test
CheckArray_NoFinite(name, arr) ==
    IF ~arr.nd THEN Raise(name \o " must be a numpy.ndarray")
    ELSE IF size(arr) = 0 THEN Raise(name \o " must be non-empty")
    ELSE Returned

\* the body of the loop over the six arrays, for one array
CheckArray(name, arr) ==
    IF ~arr.nd THEN Raise(name \o " must be a numpy.ndarray")
    ELSE IF size(arr) = 0 THEN Raise(name \o " must be non-empty")
    ELSE IF ~(\A i \in 1..size(arr) : isfinite(arr.data[i]))
         THEN Raise(name \o " contains NaN or Inf")
    ELSE Returned

\* the loop, from the i-th array on: the first error raised
RECURSIVE CheckArrays(_, _)
CheckArrays(mi, i) ==
    IF i > Len(ArrayNames) THEN Returned
    ELSE LET r == CheckArray(ArrayNames[i], mi[ArrayNames[i]])
         IN  IF r.exc # "none" THEN r ELSE CheckArrays(mi, i + 1)

\* faulty variant: np.diff(x) >= 0, equal neighbours pass
is_nondecreasing(x) ==
    \A i \in 1..(size(x) - 1) : x.data[i + 1].v - x.data[i].v >= 0

\* np.all(np.diff(x) > 0) for a 1-D array of finite floats
is_strictly_increasing(x) ==
    \A i \in 1..(size(x) - 1) : x.data[i + 1].v - x.data[i].v > 0

\* faulty variant: np.any(x < 0), a zero interval passes
AnyNegative(x) == \E i \in 1..size(x) : x.data[i].v < 0

\* np.any(x <= 0) for an array of finite floats
AnyNonPositive(x) == \E i \in 1..size(x) : x.data[i].v <= 0

\* Fs and wind: np.isscalar and the sign
CheckScalars(mi) ==
    IF ~isscalar(mi.Fs) \/ LeqZero(mi.Fs)
    THEN Raise("Fs must be a positive scalar")
    ELSE IF ~isscalar(mi.wind) \/ LeqZero(mi.wind)
    THEN Raise("wind must be a positive scalar (seconds)")
    ELSE Returned

\* faulty variant: the CVI test repeats the CSI test
CheckShapes_CSITwice(mi) ==
    LET T == mi.EEG_comp.shape[2]
    IN  IF ndim(mi.EEG_comp) # 2
        THEN Raise("EEG_comp must have shape (n_channels, T)")
        ELSE IF ndim(mi.CSI) # 1 \/ mi.CSI.shape[1] # T
        THEN Raise("CSI must be 1D with length T (columns of EEG_comp)")
        ELSE IF ndim(mi.CSI) # 1 \/ mi.CSI.shape[1] # T
        THEN Raise("CVI must be 1D with length T (columns of EEG_comp)")
        ELSE IF ndim(mi.time) # 1 \/ mi.time.shape[1] # T
        THEN Raise("time must be 1D with length T (columns of EEG_comp)")
        ELSE IF ndim(mi.IBI) # 1 \/ ndim(mi.t_IBI) # 1
                \/ mi.IBI.shape[1] # mi.t_IBI.shape[1]
        THEN Raise("IBI and t_IBI must be 1D with the same length")
        ELSE Returned

\* faulty variant: IBI is held to the length T of the sampled signals
CheckShapes_IBIvsT(mi) ==
    LET T == mi.EEG_comp.shape[2]
    IN  IF ndim(mi.EEG_comp) # 2
        THEN Raise("EEG_comp must have shape (n_channels, T)")
        ELSE IF ndim(mi.CSI) # 1 \/ mi.CSI.shape[1] # T
        THEN Raise("CSI must be 1D with length T (columns of EEG_comp)")
        ELSE IF ndim(mi.CVI) # 1 \/ mi.CVI.shape[1] # T
        THEN Raise("CVI must be 1D with length T (columns of EEG_comp)")
        ELSE IF ndim(mi.time) # 1 \/ mi.time.shape[1] # T
        THEN Raise("time must be 1D with length T (columns of EEG_comp)")
        ELSE IF ndim(mi.IBI) # 1 \/ ndim(mi.t_IBI) # 1
                \/ mi.IBI.shape[1] # T \/ mi.t_IBI.shape[1] # T
        THEN Raise("IBI and t_IBI must be 1D with the same length")
        ELSE Returned

\* ranks and lengths; T is the second axis of EEG_comp
CheckShapes(mi) ==
    LET T == mi.EEG_comp.shape[2]
    IN  IF ndim(mi.EEG_comp) # 2
        THEN Raise("EEG_comp must have shape (n_channels, T)")
        ELSE IF ndim(mi.CSI) # 1 \/ mi.CSI.shape[1] # T
        THEN Raise("CSI must be 1D with length T (columns of EEG_comp)")
        ELSE IF ndim(mi.CVI) # 1 \/ mi.CVI.shape[1] # T
        THEN Raise("CVI must be 1D with length T (columns of EEG_comp)")
        ELSE IF ndim(mi.time) # 1 \/ mi.time.shape[1] # T
        THEN Raise("time must be 1D with length T (columns of EEG_comp)")
        ELSE IF ndim(mi.IBI) # 1 \/ ndim(mi.t_IBI) # 1
                \/ mi.IBI.shape[1] # mi.t_IBI.shape[1]
        THEN Raise("IBI and t_IBI must be 1D with the same length")
        ELSE Returned

\* monotonicity and positivity
CheckOrder(mi) ==
    IF ~is_strictly_increasing(mi.time)
    THEN Raise("time must be strictly increasing")
    ELSE IF ~is_strictly_increasing(mi.t_IBI)
    THEN Raise("t_IBI must be strictly increasing")
    ELSE IF AnyNonPositive(mi.IBI)
    THEN Raise("IBI must be strictly positive (seconds)")
    ELSE Returned

\* faulty variant: T < 2 * Ws, so T = 2 * Ws passes
CheckWindow_Strict(mi) ==
    LET T == mi.EEG_comp.shape[2]
        w == WindowSamples(mi)
    IN  IF w.exc # "none" THEN [exc |-> w.exc, msg |-> ""]
        ELSE IF w.Ws <= 0 THEN Raise("wind * Fs must be >= 1 sample")
        ELSE IF T < 2 * w.Ws
        THEN Raise("T must be greater than 2 * int(wind * Fs) for non-empty outputs")
        ELSE Returned

\* derived window sizes; round() itself raises on NaN and Inf
CheckWindow(mi) ==
    LET T == mi.EEG_comp.shape[2]
        w == WindowSamples(mi)
    IN  IF w.exc # "none" THEN [exc |-> w.exc, msg |-> ""]
        ELSE IF w.Ws <= 0 THEN Raise("wind * Fs must be >= 1 sample")
        ELSE IF T <= 2 * w.Ws
        THEN Raise("T must be greater than 2 * int(wind * Fs) for non-empty outputs")
        ELSE Returned

\* the checks in the order of the code: the first exception raised, or Returned
validate_inputs(mi) ==
    IF CheckArrays(mi, 1).exc # "none" THEN CheckArrays(mi, 1)
    ELSE IF CheckScalars(mi).exc # "none" THEN CheckScalars(mi)
    ELSE IF CheckShapes(mi).exc # "none" THEN CheckShapes(mi)
    ELSE IF CheckOrder(mi).exc # "none" THEN CheckOrder(mi)
    ELSE CheckWindow(mi)

\* ------------------------------------------------------------------ output_time_axes
NoAxes == [exc |-> "none", tH2B |-> <<>>, tB2H |-> <<>>]
AxesRaise(e) == [exc |-> e, tH2B |-> <<>>, tB2H |-> <<>>]

\* faulty variant: the interior slice stops at its length, time[Ws : T - 2*Ws]
output_time_axes_StopAtLength(mi) ==
    LET T == mi.EEG_comp.shape[2]
        w == WindowSamples(mi)
    IN  IF ~mi.EEG_comp.nd THEN AxesRaise("AttributeError")
        ELSE IF ndim(mi.EEG_comp) < 2 THEN AxesRaise("IndexError")
        ELSE IF w.exc # "none" THEN AxesRaise(w.exc)
        ELSE IF ndim(mi.time) = 0 THEN AxesRaise("IndexError")
        ELSE [exc  |-> "none",
              tH2B |-> Slice(mi.time, 0, T - w.Ws),
              tB2H |-> Slice(mi.time, w.Ws, T - 2 * w.Ws)]

output_time_axes(mi) ==
    LET T == mi.EEG_comp.shape[2]
        w == WindowSamples(mi)
    IN  IF ~mi.EEG_comp.nd THEN AxesRaise("AttributeError")
        ELSE IF ndim(mi.EEG_comp) < 2 THEN AxesRaise("IndexError")
        ELSE IF w.exc # "none" THEN AxesRaise(w.exc)
        ELSE IF ndim(mi.time) = 0 THEN AxesRaise("IndexError")
        ELSE [exc  |-> "none",
              tH2B |-> Slice(mi.time, 0, T - w.Ws),
              tB2H |-> Slice(mi.time, w.Ws, T - w.Ws)]

\* ------------------------------------------------------------------ inputs tried
\* the 1-D float64 arrays of length n with elements in S
Vectors(S, n) == {NdArray(<<n>>, d) : d \in [1..n -> S]}
VectorsUpTo(S, n) == UNION {Vectors(S, k) : k \in 0..n}

Ones(n) == [i \in 1..n |-> Fin(1)]
Ramp(n) == [i \in 1..n |-> Fin(i - 1)]

\* arrays of a rank the interface does not ask for, and a non-array
ZeroDim == NdArray(<<>>, <<Fin(1)>>)
RowMatrix(n) == NdArray(<<1, n>>, Ones(n))

EEGCands ==
    UNION {{NdArray(<<1, n>>, d) : d \in [1..n -> {Fin(0 - 1), Fin(1), NaN}]} : n \in 0..MaxT}
    \cup {NdArray(<<2, 1>>, Ones(2)), NdArray(<<MaxT>>, Ones(MaxT)),
          NdArray(<<1, 1, MaxT>>, Ones(MaxT)), ZeroDim, PyList(Ones(MaxT))}
IBICands ==
    VectorsUpTo({Fin(0 - 1), Fin(0), Fin(1), NaN}, MaxM)
    \cup {RowMatrix(MaxM), ZeroDim, PyList(Ones(MaxM))}
tIBICands ==
    VectorsUpTo({Fin(0), Fin(1), Inf}, MaxM)
    \cup {NdArray(<<1, MaxM>>, Ramp(MaxM)), ZeroDim, PyList(Ramp(MaxM))}
CSICands ==
    VectorsUpTo({Fin(1), NaN}, MaxT)
    \cup {RowMatrix(MaxT), ZeroDim, PyList(Ones(MaxT))}
CVICands ==
    VectorsUpTo({Fin(1), Inf}, MaxT)
    \cup {RowMatrix(MaxT), ZeroDim, PyList(Ones(MaxT))}
timeCands ==
    VectorsUpTo({Fin(0), Fin(1), Fin(2)}, MaxT)
    \cup {NdArray(<<MaxT>>, [Ramp(MaxT) EXCEPT ![p] = NaN]) : p \in 1..MaxT}
    \cup {NdArray(<<1, MaxT>>, Ramp(MaxT)), ZeroDim, PyList(Ramp(MaxT))}
ScalarCands == {Num(h) : h \in (0 - 1)..MaxHalf} \cup {SNaN, SInf, NonScalar}

Fields == <<"EEG_comp", "IBI", "t_IBI", "CSI", "CVI", "Fs", "time", "wind">>

Cands(f) ==
    CASE f = "EEG_comp" -> EEGCands
      [] f = "IBI"      -> IBICands
      [] f = "t_IBI"    -> tIBICands
      [] f = "CSI"      -> CSICands
      [] f = "CVI"      -> CVICands
      [] f = "time"     -> timeCands
      [] OTHER          -> ScalarCands

\* a well-formed ModelInputs with T samples, MaxM beats, Fs = 1 Hz, wind = 1 s
WellFormed(T) ==
    [EEG_comp |-> NdArray(<<1, T>>, Ones(T)),
     IBI      |-> NdArray(<<MaxM>>, Ones(MaxM)),
     t_IBI    |-> NdArray(<<MaxM>>, Ramp(MaxM)),
     CSI      |-> NdArray(<<T>>, Ones(T)),
     CVI      |-> NdArray(<<T>>, Ones(T)),
     Fs       |-> Num(2),
     time     |-> NdArray(<<T>>, Ramp(T)),
     wind     |-> Num(2)]

\* ------------------------------------------------------------------ get_complete_subjects
FirstId == 13
LastId == 98

Digits == <<"0", "1", "2", "3", "4", "5", "6", "7", "8", "9">>

\* str(x) for x >= 0
RECURSIVE Decimal(_)
Decimal(x) == IF x < 10 THEN Digits[x + 1] ELSE Decimal(x \div 10) \o Digits[(x % 10) + 1]

\* number of decimal digits of x >= 0
RECURSIVE Width(_)
Width(x) == IF x < 10 THEN 1 ELSE 1 + Width(x \div 10)

RECURSIVE Zeros(_)
Zeros(n) == IF n <= 0 THEN "" ELSE "0" \o Zeros(n - 1)

\* f"sub-{x:03d}": zero-padded to at least three digits
Format(x) == "sub-" \o Zeros(3 - Width(x)) \o Decimal(x)

\* sorted(list(S)) for a set of integers
RECURSIVE Sorted(_)
Sorted(S) ==
    IF S = {} THEN <<>>
    ELSE LET m == CHOOSE x \in S : \A y \in S : x <= y
         IN  <<m>> \o Sorted(S \ {m})

all_ids == FirstId..LastId
missing_eeg == (13..31) \cup {37, 66}
missing_ecg == {17, 37, 66}
missing_pupil == {17, 94}
excluded_ids == missing_eeg \cup missing_ecg \cup missing_pupil

\* faulty variant: range(13, 31), which leaves sub-031 in
get_complete_subjects_Short ==
    LET valid_ids == Sorted(all_ids \ ((13..30) \cup {37, 66} \cup missing_ecg \cup missing_pupil))
    IN  [i \in 1..Len(valid_ids) |-> Format(valid_ids[i])]

get_complete_subjects ==
    LET valid_ids == Sorted(all_ids \ excluded_ids)
    IN  [i \in 1..Len(valid_ids) |-> Format(valid_ids[i])]

\* ------------------------------------------------------------------ state
VARIABLES
    mi,         \* the ModelInputs under test
    pc,         \* "start", "validated", "done"
    result,     \* what validate_inputs(mi) did
    axes,       \* what output_time_axes(mi) did
    dpc,        \* main: "init", "loop", "fetch", "done"
    subjects,   \* subjects_to_download
    idx,        \* enumerate index of the subject in hand, 0 before the loop
    subject,    \* the subject in hand
    successful, \* counter
    failed,     \* counter
    nfiles,     \* len(files) of the last subject that had rest files
    fi,         \* files of it passed to dl.get so far
    searched,   \* history: the subjects find was run for, in order
    skipped,    \* history: subjects left by "continue" for want of rest files
    findErrors, \* history: subjects whose search raised
    withFiles,  \* history: subjects that had rest files
    errAt       \* history: first file of the last such subject whose dl.get raised, or 0

vvars == <<mi, pc, result, axes>>
dvars == <<dpc, subjects, idx, subject, successful, failed, nfiles, fi,
           searched, skipped, findErrors, withFiles, errAt>>
vars == <<vvars, dvars>>

\* main before its first statement
MainInit ==
    /\ dpc = "init"
    /\ subjects = <<>>
    /\ idx = 0
    /\ subject = ""
    /\ successful = 0
    /\ failed = 0
    /\ nfiles = 0
    /\ fi = 0
    /\ searched = <<>>
    /\ skipped = 0
    /\ findErrors = 0
    /\ withFiles = 0
    /\ errAt = 0

\* a well-formed input with any two of its fields replaced
Init ==
    /\ \E T \in 1..MaxT : \E i \in 1..Len(Fields) : \E j \in (i + 1)..Len(Fields) :
         \E x \in Cands(Fields[i]) : \E y \in Cands(Fields[j]) :
            mi = [[WellFormed(T) EXCEPT ![Fields[i]] = x] EXCEPT ![Fields[j]] = y]
    /\ pc = "start"
    /\ result = Returned
    /\ axes = NoAxes
    /\ MainInit

Validate ==
    /\ pc = "start"
    /\ result' = validate_inputs(mi)
    /\ pc' = "validated"
    /\ UNCHANGED <<mi, axes>>
    /\ UNCHANGED dvars

OutputTimeAxes ==
    /\ pc = "validated"
    /\ axes' = output_time_axes(mi)
    /\ pc' = "done"
    /\ UNCHANGED <<mi, result>>
    /\ UNCHANGED dvars

Next == Validate \/ OutputTimeAxes

Spec == Init /\ [][Next]_vars

\* ------------------------------------------------------------------ main of full_download.py
DownloadInit ==
    /\ mi = WellFormed(MaxT)
    /\ pc = "start"
    /\ result = Returned
    /\ axes = NoAxes
    /\ MainInit

\* subjects_to_download = get_complete_subjects(); successful = 0; failed = 0
Start ==
    /\ dpc = "init"
    /\ subjects' = get_complete_subjects
    /\ successful' = 0
    /\ failed' = 0
    /\ dpc' = "loop"
    /\ UNCHANGED <<idx, subject, nfiles, fi, searched, skipped, findErrors, withFiles, errAt>>
    /\ UNCHANGED vvars

\* the search of the next subject raises: the outer except counts it as failed
FindRaises ==
    /\ dpc = "loop" /\ idx < Len(subjects)
    /\ idx' = idx + 1
    /\ subject' = subjects[idx + 1]
    /\ searched' = Append(searched, subjects[idx + 1])
    /\ failed' = failed + 1
    /\ findErrors' = findErrors + 1
    /\ UNCHANGED <<dpc, subjects, successful, nfiles, fi, skipped, withFiles, errAt>>
    /\ UNCHANGED vvars

\* the search finds no rest file: continue
NoRestFiles ==
    /\ dpc = "loop" /\ idx < Len(subjects)
    /\ idx' = idx + 1
    /\ subject' = subjects[idx + 1]
    /\ searched' = Append(searched, subjects[idx + 1])
    /\ skipped' = skipped + 1
    /\ UNCHANGED <<dpc, subjects, successful, failed, nfiles, fi, findErrors, withFiles, errAt>>
    /\ UNCHANGED vvars

\* the search finds n rest files: enter the loop over them
FoundFiles ==
    /\ dpc = "loop" /\ idx < Len(subjects)
    /\ \E n \in 1..MaxFiles : nfiles' = n
    /\ idx' = idx + 1
    /\ subject' = subjects[idx + 1]
    /\ searched' = Append(searched, subjects[idx + 1])
    /\ fi' = 0
    /\ errAt' = 0
    /\ withFiles' = withFiles + 1
    /\ dpc' = "fetch"
    /\ UNCHANGED <<subjects, successful, failed, skipped, findErrors>>
    /\ UNCHANGED vvars

\* faulty variant: no inner try, a dl.get that raises ends the subject in the outer except
GetFile_Abort ==
    /\ dpc = "fetch" /\ fi < nfiles
    /\ \E ok \in BOOLEAN :
        IF ok
        THEN /\ fi' = fi + 1
             /\ UNCHANGED <<dpc, failed, errAt>>
        ELSE /\ fi' = fi + 1
             /\ errAt' = (IF errAt = 0 THEN fi + 1 ELSE errAt)
             /\ failed' = failed + 1
             /\ dpc' = "loop"
    /\ UNCHANGED <<subjects, idx, subject, successful, nfiles, searched, skipped,
                   findErrors, withFiles>>
    /\ UNCHANGED vvars

\* dl.get of the next file: it returns, or it raises and the inner except passes
GetFile ==
    /\ dpc = "fetch" /\ fi < nfiles
    /\ \E ok \in BOOLEAN :
        /\ fi' = fi + 1
        /\ errAt' = (IF ~ok /\ errAt = 0 THEN fi + 1 ELSE errAt)
    /\ UNCHANGED <<dpc, subjects, idx, subject, successful, failed, nfiles, searched,
                   skipped, findErrors, withFiles>>
    /\ UNCHANGED vvars

\* the loop over the files is over: successful += 1
Complete ==
    /\ dpc = "fetch" /\ fi = nfiles
    /\ successful' = successful + 1
    /\ dpc' = "loop"
    /\ UNCHANGED <<subjects, idx, subject, failed, nfiles, fi, searched, skipped,
                   findErrors, withFiles, errAt>>
    /\ UNCHANGED vvars

\* the loop over the subjects is over: the summary is printed
Summary ==
    /\ dpc = "loop" /\ idx = Len(subjects)
    /\ dpc' = "done"
    /\ UNCHANGED <<subjects, idx, subject, successful, failed, nfiles, fi, searched,
                   skipped, findErrors, withFiles, errAt>>
    /\ UNCHANGED vvars

DownloadNext ==
    \/ Start
    \/ FindRaises
    \/ NoRestFiles
    \/ FoundFiles
    \/ GetFile
    \/ Complete
    \/ Summary

DownloadSpec == DownloadInit /\ [][DownloadNext]_vars

\* ------------------------------------------------------------------ properties of the validator
Validated == pc # "start"
Rejected == Validated /\ result.exc = "InputValidationError"
Accepted == Validated /\ result.exc = "none"

ArrayNameSet == {ArrayNames[i] : i \in 1..Len(ArrayNames)}
RequiredRank(name) == IF name = "EEG_comp" THEN 2 ELSE 1

IsEmpty(a) == a.data = <<>>
HasNonFinite(a) == \E i \in DOMAIN a.data : a.data[i].cls \in {"nan", "inf"}
WrongRank(name, a) == Len(a.shape) # RequiredRank(name)
Sound(name, a) == a.nd /\ ~IsEmpty(a) /\ ~HasNonFinite(a) /\ ~WrongRank(name, a)

\* the time dimension of a 2-D EEG_comp, and Ws when round() yields a number
TimeDim == mi.EEG_comp.shape[2]
WsDefined == WindowSamples(mi).exc = "none"
WsValue == WindowSamples(mi).Ws

\* some neighbouring pair of finite values does not increase
HasNonIncreasingPair(a) ==
    \E i \in 1..(Len(a.data) - 1) :
        /\ a.data[i].cls = "fin" /\ a.data[i + 1].cls = "fin"
        /\ a.data[i + 1].v <= a.data[i].v

\* every earlier value is below every later one
Ascending(a) ==
    \A i, j \in DOMAIN a.data : i < j => a.data[i].v < a.data[j].v

\* C1: whenever one of the six arrays is empty, holds a NaN or an Inf, or has the
\* wrong rank (EEG_comp not 2-D, another array not 1-D), validate_inputs raises
\* InputValidationError, whatever the other inputs are.
C1_BadArrayRejected ==
    Validated =>
        \A n \in ArrayNameSet :
            (IsEmpty(mi[n]) \/ HasNonFinite(mi[n]) \/ WrongRank(n, mi[n]))
                => result.exc = "InputValidationError"

\* t_IBI alone has the wrong rank, every other array is sound, and the call raised
C1_Witness ==
    /\ Rejected
    /\ WrongRank("t_IBI", mi.t_IBI) /\ mi.t_IBI.nd
    /\ ~IsEmpty(mi.t_IBI) /\ ~HasNonFinite(mi.t_IBI)
    /\ \A n \in ArrayNameSet \ {"t_IBI"} : Sound(n, mi[n])
    /\ result.msg = "IBI and t_IBI must be 1D with the same length"

\* C2: whenever CSI, CVI or time has a length other than T, the second axis of
\* EEG_comp, or IBI and t_IBI differ in length, validate_inputs raises
\* InputValidationError.
C2_LengthMismatchRejected ==
    Validated =>
        /\ (/\ Len(mi.EEG_comp.shape) = 2
            /\ \E n \in {"CSI", "CVI", "time"} :
                  Len(mi[n].shape) = 1 /\ mi[n].shape[1] # TimeDim)
              => result.exc = "InputValidationError"
        /\ (/\ Len(mi.IBI.shape) = 1 /\ Len(mi.t_IBI.shape) = 1
            /\ mi.IBI.shape[1] # mi.t_IBI.shape[1])
              => result.exc = "InputValidationError"

\* CVI alone is too short and is what the call raised for
C2_Witness ==
    /\ Rejected
    /\ \A n \in ArrayNameSet : Sound(n, mi[n])
    /\ mi.CSI.shape[1] = TimeDim /\ mi.time.shape[1] = TimeDim
    /\ mi.CVI.shape[1] < TimeDim
    /\ result.msg = "CVI must be 1D with length T (columns of EEG_comp)"

\* C3: whenever time or t_IBI has a neighbouring pair x[i+1] <= x[i], equal
\* values included, validate_inputs raises InputValidationError.
C3_NotIncreasingRejected ==
    (/\ Validated
     /\ (HasNonIncreasingPair(mi.time) \/ HasNonIncreasingPair(mi.t_IBI)))
            => result.exc = "InputValidationError"

\* t_IBI repeats a timestamp, everything else is in order, and the call raised
C3_Witness ==
    /\ Rejected
    /\ \A n \in ArrayNameSet : Sound(n, mi[n])
    /\ \E i \in 1..(Len(mi.t_IBI.data) - 1) : mi.t_IBI.data[i + 1] = mi.t_IBI.data[i]
    /\ Ascending(mi.time)
    /\ result.msg = "t_IBI must be strictly increasing"

\* C4: whenever some element of IBI, at any position, is zero or negative,
\* validate_inputs raises InputValidationError.
C4_NonPositiveIBIRejected ==
    (/\ Validated
     /\ (\E i \in DOMAIN mi.IBI.data :
            mi.IBI.data[i].cls = "fin" /\ mi.IBI.data[i].v <= 0))
            => result.exc = "InputValidationError"

\* only the last IBI value is zero, and that is what the call raised for
C4_Witness ==
    /\ Rejected
    /\ Len(mi.IBI.data) > 1
    /\ mi.IBI.data[Len(mi.IBI.data)] = Fin(0)
    /\ \A i \in 1..(Len(mi.IBI.data) - 1) : mi.IBI.data[i].v > 0
    /\ result.msg = "IBI must be strictly positive (seconds)"

\* C5: with Ws = round(wind * Fs), whenever Ws < 1 or T <= 2*Ws, T = 2*Ws
\* included, validate_inputs raises InputValidationError.
C5_WindowRejected ==
    (/\ Validated
     /\ (/\ Len(mi.EEG_comp.shape) = 2
         /\ WsDefined
         /\ (WsValue < 1 \/ TimeDim <= 2 * WsValue)))
            => result.exc = "InputValidationError"

\* T = 2*Ws exactly, and that is what the call raised for
C5_Witness ==
    /\ Rejected
    /\ Len(mi.EEG_comp.shape) = 2
    /\ WsDefined /\ WsValue >= 1
    /\ TimeDim = 2 * WsValue
    /\ result.msg = "T must be greater than 2 * int(wind * Fs) for non-empty outputs"

\* C6: for every input validate_inputs accepts, output_time_axes returns the
\* prefix time[0 : T-Ws], of length T - Ws, and the interior slice
\* time[Ws : T-Ws], of length T - 2*Ws, with the Ws that validate_inputs checked.
C6_OutputAxes ==
    (pc = "done" /\ result.exc = "none") =>
        /\ axes.exc = "none"
        /\ axes.tH2B.shape = <<TimeDim - WsValue>>
        /\ axes.tH2B.data = SubSeq(mi.time.data, 1, TimeDim - WsValue)
        /\ axes.tB2H.shape = <<TimeDim - 2 * WsValue>>
        /\ axes.tB2H.data = SubSeq(mi.time.data, WsValue + 1, TimeDim - WsValue)
        /\ Len(axes.tH2B.data) = TimeDim - WsValue
        /\ Len(axes.tB2H.data) = TimeDim - 2 * WsValue

\* an accepted input whose two axes were computed and are not empty
C6_Witness ==
    /\ pc = "done" /\ result.exc = "none"
    /\ axes.exc = "none"
    /\ Len(axes.tB2H.data) >= 1
    /\ Len(axes.tH2B.data) > Len(axes.tB2H.data)

\* C7: an EEG_comp holding a negative value violates the documented
\* requirement (non-negative, finite) and is rejected by validate_inputs.
C7_NegativeEEGRejected ==
    (/\ Validated
     /\ (\E i \in DOMAIN mi.EEG_comp.data :
            mi.EEG_comp.data[i].cls = "fin" /\ mi.EEG_comp.data[i].v < 0))
            => result.exc = "InputValidationError"

\* the listed requirements, stated on the input alone
MeetsListedConditions ==
    /\ \A n \in ArrayNameSet : Sound(n, mi[n])
    /\ \A n \in {"CSI", "CVI", "time"} : mi[n].shape[1] = TimeDim
    /\ mi.IBI.shape[1] = mi.t_IBI.shape[1]
    /\ Ascending(mi.time) /\ Ascending(mi.t_IBI)
    /\ \A i \in DOMAIN mi.IBI.data : mi.IBI.data[i].v > 0
    /\ mi.Fs.kind = "num" /\ mi.Fs.h > 0
    /\ mi.wind.kind = "num" /\ mi.wind.h > 0
    /\ WsDefined /\ WsValue >= 1 /\ TimeDim > 2 * WsValue

EligibleIds ==
    {n \in 13..98 : /\ n \notin 13..31 /\ n \notin {37, 66}
                    /\ n \notin {17, 37, 66}
                    /\ n \notin {17, 94}}

\* 'sub-NNN' for a two-digit identifier
Label(n) == "sub-0" \o Digits[(n \div 10) + 1] \o Digits[(n % 10) + 1]

\* the i-th smallest eligible identifier
NthEligible(i) ==
    CHOOSE n \in EligibleIds : Cardinality({m \in EligibleIds : m < n}) = i - 1

ExpectedSubjects == [i \in 1..Cardinality(EligibleIds) |-> Label(NthEligible(i))]

\* C9: the list main works on is the eligible identifiers (13..98 without those
\* lacking EEG, ECG/PPG or pupillometry) as 'sub-NNN' in ascending order; main
\* searches them in that order, each once, all of them by the end, and fetches
\* files only for the subject it has just searched.
C9_ExactlyEligibleInOrder ==
    /\ dpc # "init" => subjects = ExpectedSubjects
    /\ Len(searched) <= Len(ExpectedSubjects)
    /\ searched = SubSeq(ExpectedSubjects, 1, Len(searched))
    /\ dpc = "fetch" => (searched # <<>> /\ subject = searched[Len(searched)])
    /\ dpc = "done" => searched = ExpectedSubjects

\* the run is over, all 64 subjects were searched and some had files fetched
C9_Witness ==
    /\ dpc = "done"
    /\ Len(searched) = 64
    /\ searched[1] = "sub-032" /\ searched[64] = "sub-098"
    /\ successful > 0 /\ skipped > 0

\* C10: a dl.get that raises is ignored: the remaining files of the subject and
\* all later subjects are still attempted, the subject counts as successful and
\* never as failed, every subject increments at most one counter, and at the end
\* successful + failed falls short of the number of subjects by exactly the
\* subjects skipped for having no rest files.
C10_FetchErrorsIgnored ==
    /\ failed = findErrors
    /\ successful = withFiles - (IF dpc = "fetch" THEN 1 ELSE 0)
    /\ dpc = "fetch" => fi <= nfiles
    /\ (dpc # "fetch" /\ errAt # 0) => fi = nfiles
    /\ successful + failed + skipped = idx - (IF dpc = "fetch" THEN 1 ELSE 0)
    /\ dpc = "done" =>
        /\ Len(searched) = Len(subjects)
        /\ successful + failed <= Len(subjects)
        /\ Len(subjects) - (successful + failed) = skipped

\* the run is over; the last subject with files had two, the first dl.get raised,
\* the second was still made, and no subject was counted as failed
C10_Witness ==
    /\ dpc = "done"
    /\ nfiles = 2 /\ errAt = 1 /\ fi = 2
    /\ failed = 0
    /\ successful > 0 /\ skipped > 0

====
